---- MODULE Spec2Model ----
EXTENDS Integers, Sequences, FiniteSets, TLC

(***************************************************************************)
(* Model of src/main.py of the license plate recognition program.          *)
(*                                                                         *)
(* Characters are single-character strings, text is a sequence of them.    *)
(* "TAB" stands for the tab character, "e_acute" for a non-ASCII letter    *)
(* (str.isalnum() is true for it, the class [A-Z] does not contain it).     *)
(***************************************************************************)

Upper == {"A","B","C","D","E","F","G","H","I","J","K","L","M","N","O","P",
          "Q","R","S","T","U","V","W","X","Y","Z"}
Lower == {"a","b","c","d","e","f","g","h","i","j","k","l","m","n","o","p",
          "q","r","s","t","u","v","w","x","y","z"}
Digit == {"0","1","2","3","4","5","6","7","8","9"}
OtherLetter == {"e_acute"}
Whitespace == {" ", "TAB"}

\* str.isalnum() / str.isspace() of one character
IsAlnum(ch) == ch \in Upper \cup Lower \cup Digit \cup OtherLetter
IsSpace(ch) == ch \in Whitespace

(* A regular expression of LICENSE_PLATE_PATTERNS is a sequence of          *)
(* elements cls{lo,hi}; a literal character is a class of one character.   *)
Elem(cls, lo, hi) == [cls |-> cls, lo |-> lo, hi |-> hi]

PatUSA       == << Elem(Upper \cup Digit, 1, 7) >>
PatIndia     == << Elem(Upper, 2, 2), Elem(Digit, 2, 2), Elem(Upper, 1, 2), Elem(Digit, 4, 4) >>
PatNepal     == << Elem(Upper, 2, 2), Elem({"-"}, 1, 1), Elem(Digit, 1, 4), Elem({"-"}, 1, 1), Elem(Upper, 1, 2) >>
PatAustralia == << Elem(Upper, 1, 3), Elem(Digit, 1, 4) >>
PatCanada    == << Elem(Upper \cup Digit, 1, 7) >>

LICENSE_PLATE_PATTERNS ==
    << <<"USA", PatUSA>>, <<"India", PatIndia>>, <<"Nepal", PatNepal>>,
       <<"Australia", PatAustralia>>, <<"Canada", PatCanada>> >>

(* re.match(pattern, s): the pattern matches some prefix of s (the match is *)
(* anchored at the start only; backtracking tries every repetition count).  *)
RECURSIVE ReMatch(_, _)
ReMatch(p, s) ==
    IF p = << >> THEN TRUE
    ELSE LET e == Head(p) IN
         \E k \in e.lo .. e.hi :
            /\ k <= Len(s)
            /\ \A i \in 1 .. k : s[i] \in e.cls
            /\ ReMatch(Tail(p), SubSeq(s, k + 1, Len(s)))

\* text.replace(" ", "")
RemoveSpaces(text) == SelectSeq(text, LAMBDA ch : ch # " ")

(* for country, pattern in table.items(): if re.match(...): return country *)
RECURSIVE ScanPatterns(_, _, _)
ScanPatterns(tbl, s, i) ==
    IF i > Len(tbl) THEN "Unknown"
    ELSE IF ReMatch(tbl[i][2], s) THEN tbl[i][1]
    ELSE ScanPatterns(tbl, s, i + 1)

DetectCountryIn(tbl, text) == ScanPatterns(tbl, RemoveSpaces(text), 1)

\* Mutant: the table scanned in reverse order.
detect_country_reversed(text) ==
    DetectCountryIn([i \in 1 .. Len(LICENSE_PLATE_PATTERNS) |->
                        LICENSE_PLATE_PATTERNS[Len(LICENSE_PLATE_PATTERNS) + 1 - i]], text)

detect_country(text) == DetectCountryIn(LICENSE_PLATE_PATTERNS, text)

\* Mutant: the normalisation step forgotten (text kept as OCR returned it).
NormalizeKeepAll(text) == text
\* Mutant: '-' kept by the normalisation (e.isalnum() or e.isspace() or e == '-').
NormalizeKeepHyphen(text) == SelectSeq(text, LAMBDA ch : IsAlnum(ch) \/ IsSpace(ch) \/ ch = "-")

\* ''.join(e for e in text if e.isalnum() or e.isspace())
Normalize(text) == SelectSeq(text, LAMBDA ch : IsAlnum(ch) \/ IsSpace(ch))

VARIABLES
    \* process_frame (frame pipeline)
    frame, contours, fpc, ci, results, ri, plates, annots, ocrCalls,
    \* one text through the text acceptance filter and detect_country
    txt, normTxt, rawCountry, normCountry, tpc,
    \* main and play_video
    mpc, vpc, useMpl, framePos, streamLen, gui, webcam, processed, released, eosSeen,
    innerCaught, outerCaught, retries

frameVars == <<frame, contours, fpc, ci, results, ri, plates, annots, ocrCalls>>
textVars == <<txt, normTxt, rawCountry, normCountry, tpc>>
mainVars == <<mpc, vpc, useMpl, framePos, streamLen, gui, webcam, processed, released, eosSeen,
              innerCaught, outerCaught, retries>>
vars == <<frameVars, textVars, mainVars>>

FrameIdle ==
    /\ frame = << >> /\ contours = << >> /\ fpc = "idle" /\ ci = 0
    /\ results = << >> /\ ri = 0 /\ plates = << >> /\ annots = << >> /\ ocrCalls = << >>
TextIdle ==
    /\ txt = << >> /\ normTxt = << >> /\ rawCountry = "" /\ normCountry = "" /\ tpc = "idle"
MainIdle ==
    /\ mpc = "idle" /\ vpc = "idle" /\ useMpl = FALSE /\ framePos = 0 /\ streamLen = 0
    /\ gui = FALSE /\ webcam = FALSE
    /\ processed = 0 /\ released = FALSE /\ eosSeen = FALSE
    /\ innerCaught = FALSE /\ outerCaught = FALSE /\ retries = 0

(***************************************************************************)
(* detect_country and the text acceptance filter on bounded texts          *)
(***************************************************************************)

MaxLen == 4
TextChars == {"A", "Z", "a", "1", " ", "TAB", "-", "e_acute"}
TextXYZ123 == <<"X","Y","Z","1","2","3">>
TextIndia == <<"A","B","1","2","C","D","3","4","5","6">>
TextNepalRaw == <<"A","B","-","1","2","-","C","D">>
TextSpaced == <<" ","a","B","1","2"," ","Z">>
InputTexts ==
    UNION {[1 .. k -> TextChars] : k \in 0 .. MaxLen}
        \cup {TextXYZ123, TextIndia, TextNepalRaw, TextSpaced}

InitText ==
    /\ txt \in InputTexts
    /\ normTxt = << >> /\ rawCountry = "" /\ normCountry = "" /\ tpc = "start"
    /\ FrameIdle /\ MainIdle

\* detect_country applied to a text as given
DetectRaw ==
    /\ tpc = "start"
    /\ rawCountry' = detect_country(txt)
    /\ tpc' = "raw"
    /\ UNCHANGED <<txt, normTxt, normCountry, frameVars, mainVars>>

\* process_frame lines 51-53: normalize, length filter, detect_country
FilterAndDetect ==
    /\ tpc = "raw"
    /\ LET t == Normalize(txt) IN
         /\ normTxt' = t
         /\ IF Len(t) >= 4
              THEN normCountry' = detect_country(t) /\ tpc' = "done"
              ELSE normCountry' = normCountry /\ tpc' = "rejected"
    /\ UNCHANGED <<txt, rawCountry, frameVars, mainVars>>

NextText == DetectRaw \/ FilterAndDetect

SpecText == InitText /\ [][NextText]_vars


FirstMatchIndex(s) ==
    {i \in 1 .. Len(LICENSE_PLATE_PATTERNS) :
        /\ ReMatch(LICENSE_PLATE_PATTERNS[i][2], s)
        /\ \A j \in 1 .. i - 1 : ~ReMatch(LICENSE_PLATE_PATTERNS[j][2], s)}

(* C4: detect_country returns the first country of the declared order whose *)
(* pattern matches a prefix of the text with spaces removed, or "Unknown"   *)
(* when none does; "XYZ123" gives "USA" and no text ever gives "Canada".    *)
C4_FirstMatchWins ==
    tpc # "start" =>
        LET s == RemoveSpaces(txt) IN
        /\ rawCountry # "Canada"
        /\ (txt = TextXYZ123 => rawCountry = "USA")
        /\ (FirstMatchIndex(s) = {} => rawCountry = "Unknown")
        /\ \A i \in FirstMatchIndex(s) : rawCountry = LICENSE_PLATE_PATTERNS[i][1]

C4_Witness == tpc # "start" /\ txt = TextXYZ123 /\ rawCountry = "USA"

(* C10: every text that passes the filter of process_frame is classified as *)
(* "USA" when its first non-space character is in [A-Z0-9] and "Unknown"    *)
(* otherwise; the hyphenated Nepal pattern never matches such a text.      *)
C10_OnlyUSAOrUnknown ==
    tpc = "done" =>
        LET s == RemoveSpaces(normTxt) IN
        /\ normCountry \in {"USA", "Unknown"}
        /\ (s # << >> /\ s[1] \in Upper \cup Digit) => normCountry = "USA"
        /\ (s = << >> \/ s[1] \notin Upper \cup Digit) => normCountry = "Unknown"
        /\ ~ReMatch(PatNepal, s)

C10_Witness ==
    tpc = "done" /\ normCountry = "Unknown" /\ Len(normTxt) >= 4

(***************************************************************************)
(* process_frame                                                           *)
(*                                                                         *)
(* A frame is a sequence of rows of 8-bit levels with equal colour         *)
(* channels (cvtColor keeps the level, 4899+9617+1868 = 16384); << >> is an *)
(* empty image, on which cvtColor raises.  CLAHE and bilateralFilter are    *)
(* not computed: the only fact used is that both map a uniform image to a   *)
(* uniform one (one level maps to one level; a weighted mean of equal       *)
(* levels is that level), so a non-uniform frame may come out as any gray   *)
(* image.  Canny's Sobel gradient is computed; non-maximum suppression and  *)
(* hysteresis are not: with no pixel above the high threshold there is no   *)
(* edge, otherwise there may or may not be.  Contour extraction            *)
(* (findContours) is external: an edge map with no edge pixel has no        *)
(* contour, otherwise any sequence of contours of ContourShapes can come    *)
(* out.  A contour is given by what process_frame reads of it: contourArea, *)
(* the vertex count of approxPolyDP, boundingRect.  The OCR engine          *)
(* (reader.readtext) returns any sequence of OCR results.                   *)
(***************************************************************************)

MaxContours == 2
MaxResults == 2
PixelLevels == {0, 255}
GrayLevels == {0, 50, 128, 255}
Frames == {<< >>} \cup {<< <<a, b>> >> : a, b \in PixelLevels}
FrameInputs == Frames \ {<< <<255, 0>> >>}   \* one of the two mirror-image edges

Cells(g) == (1 .. Len(g)) \X (1 .. Len(g[1]))
AbsDiff(a, b) == IF a >= b THEN a - b ELSE b - a
Uniform(f) ==
    f = << >> \/ \A p, q \in Cells(f) : f[p[1]][p[2]] = f[q[1]][q[2]]

(* preprocess_image: cvtColor (raises on an empty image), CLAHE(2.0, 8x8),  *)
(* bilateralFilter(11, 17, 17): the gray images it can give.                *)
preprocess_image(img) ==
    LET grids == {[r \in 1 .. Len(img) |-> [c \in 1 .. Len(img[1]) |-> v[<<r, c>>]]] :
                     v \in [Cells(img) -> GrayLevels]}
    IN IF Uniform(img)
         THEN {[r \in 1 .. Len(img) |-> [c \in 1 .. Len(img[1]) |-> lv]] : lv \in GrayLevels}
         ELSE grids

(* 3x3 Sobel derivatives with BORDER_REPLICATE, L1 magnitude |dx| + |dy|  *)
(* (Canny's default, L2gradient = false).                                   *)
Clamp(i, n) == IF i < 1 THEN 1 ELSE IF i > n THEN n ELSE i
Px(g, r, c) == g[Clamp(r, Len(g))][Clamp(c, Len(g[1]))]
SobelW(d) == IF d = 0 THEN 2 ELSE 1
SobelMag(g, p) ==
    LET r == p[1]
        c == p[2]
        dx == (SobelW(-1) * (Px(g, r - 1, c + 1) - Px(g, r - 1, c - 1)))
              + (SobelW(0) * (Px(g, r, c + 1) - Px(g, r, c - 1)))
              + (SobelW(1) * (Px(g, r + 1, c + 1) - Px(g, r + 1, c - 1)))
        dy == (SobelW(-1) * (Px(g, r + 1, c - 1) - Px(g, r - 1, c - 1)))
              + (SobelW(0) * (Px(g, r + 1, c) - Px(g, r - 1, c)))
              + (SobelW(1) * (Px(g, r + 1, c + 1) - Px(g, r - 1, c + 1)))
    IN AbsDiff(dx, 0) + AbsDiff(dy, 0)

\* Mutant: the thresholds lost (an edge map may come out of any image).
CannyAlways(g) == BOOLEAN

(* Canny(gray, 30, 200): whether the edge map has an edge pixel.  Every     *)
(* edge is reached by hysteresis from a pixel of magnitude > 200.          *)
Canny(g) ==
    IF \E p \in Cells(g) : SobelMag(g, p) > 200 THEN BOOLEAN ELSE {FALSE}

Contour(area, verts, x, y, w, h) ==
    [area |-> area, verts |-> verts, x |-> x, y |-> y, w |-> w, h |-> h]
ContourShapes ==
    { Contour(1000, 4, 10, 30, 90, 60),    \* plate: area 1000, aspect 1.5
      Contour(10000, 4, 10, 30, 100, 100), \* square
      Contour(999, 4, 10, 30, 100, 40),    \* area below 1000
      Contour(1500, 3, 10, 30, 100, 40),   \* triangle
      Contour(2000, 4, 10, 30, 120, 20),   \* aspect 6.0
      Contour(1000, 4, 10, 30, 79, 30),    \* crop narrower than 80
      Contour(1000, 4, 10, 30, 90, 19) }   \* crop lower than 20
ContourSeqs == UNION {[1 .. k -> ContourShapes] : k \in 0 .. MaxContours}

\* findContours(edges, RETR_TREE, CHAIN_APPROX_SIMPLE)
FindContours(hasEdge) == IF hasEdge THEN ContourSeqs ELSE {<< >>}

OcrResult(text, prob) == [text |-> text, prob |-> prob]   \* prob in hundredths
OcrResults ==
    { OcrResult(<<"A","B","1">>, 90),
      OcrResult(TextIndia, 20),
      OcrResult(TextIndia, 19),
      OcrResult(<<"K","A","-","0","1",".">>, 90) }

\* Mutant: "or" of the crop-size check written as "and".
ContourPassesRoiAnd(c) ==
    /\ ~(c.area < 1000)
    /\ c.verts >= 4
    /\ 3 * c.h <= 2 * c.w /\ c.w <= 5 * c.h
    /\ ~(c.h < 20 /\ c.w < 80)

(* process_frame lines 35-45: the filters a contour passes before readtext; *)
(* roi = frame[y:y+h, x:x+w] has shape (h, w), aspect ratio is float(w)/h.  *)
ContourPasses(c) ==
    /\ ~(c.area < 1000)
    /\ c.verts >= 4
    /\ 3 * c.h <= 2 * c.w /\ c.w <= 5 * c.h
    /\ ~(c.h < 20 \/ c.w < 80)

InitFrame ==
    /\ frame \in FrameInputs
    /\ contours = << >> /\ fpc = "start" /\ ci = 0
    /\ results = << >> /\ ri = 0 /\ plates = << >> /\ annots = << >> /\ ocrCalls = << >>
    /\ TextIdle /\ MainIdle

\* lines 29-31: preprocess, Canny, findContours (cvtColor raises on an empty image)
FindCandidates ==
    /\ fpc = "start"
    /\ IF frame = << >>
         THEN fpc' = "raised" /\ UNCHANGED <<contours, ci>>
         ELSE /\ \E gray \in preprocess_image(frame) :
                   \E hasEdge \in Canny(gray) : contours' \in FindContours(hasEdge)
              /\ ci' = 1
              /\ fpc' = "contours"
    /\ UNCHANGED <<frame, results, ri, plates, annots, ocrCalls, textVars, mainVars>>

\* lines 34-46: one contour; filtered out, or its crop goes to reader.readtext
CheckContour ==
    /\ fpc = "contours" /\ ci <= Len(contours)
    /\ IF ContourPasses(contours[ci])
         THEN /\ ocrCalls' = Append(ocrCalls, <<ci, 0>>)
              /\ fpc' = "results"
              /\ ci' = ci
         ELSE /\ ci' = ci + 1
              /\ UNCHANGED <<ocrCalls, fpc>>
    /\ UNCHANGED <<frame, contours, results, ri, plates, annots, textVars, mainVars>>

\* Mutant: each accepted plate put in front of the earlier ones.
HandleResultPrepend ==
    /\ fpc = "results" /\ ri < MaxResults
    /\ \E res \in OcrResults :
         LET text == Normalize(res.text)
             c == contours[ci]
         IN /\ results' = <<res>>
            /\ IF res.prob < 20 \/ ~(Len(text) >= 4)
                 THEN UNCHANGED <<plates, annots>>
                 ELSE LET country == detect_country(text) IN
                      /\ plates' = <<[text |-> text, country |-> country, prob |-> res.prob,
                                      contour |-> ci, result |-> ri + 1]>> \o plates
                      /\ annots' = <<[label |-> <<text, country, res.prob>>, at |-> <<c.x, c.y - 10>>,
                                      rect |-> <<c.x, c.y, c.x + c.w, c.y + c.h>>]>> \o annots
    /\ ri' = ri + 1
    /\ ocrCalls' = [ocrCalls EXCEPT ![Len(ocrCalls)][2] = ri + 1]
    /\ UNCHANGED <<frame, contours, fpc, ci, textVars, mainVars>>

(* lines 47-58: the next element of the list reader.readtext returned (the  *)
(* list is drawn one element at a time as the for loop consumes it; results *)
(* holds the element being handled, ri counts the elements so far).         *)
(* Accepted results give a plate and an annotation.                         *)
HandleResult ==
    /\ fpc = "results" /\ ri < MaxResults
    /\ \E res \in OcrResults :
         LET text == Normalize(res.text)
             c == contours[ci]
         IN /\ results' = <<res>>
            /\ IF res.prob < 20 \/ ~(Len(text) >= 4)
                 THEN UNCHANGED <<plates, annots>>
                 ELSE LET country == detect_country(text) IN
                      /\ plates' = Append(plates,
                             [text |-> text, country |-> country, prob |-> res.prob,
                              contour |-> ci, result |-> ri + 1])
                      /\ annots' = Append(annots,
                             [label |-> <<text, country, res.prob>>, at |-> <<c.x, c.y - 10>>,
                              rect |-> <<c.x, c.y, c.x + c.w, c.y + c.h>>])
    /\ ri' = ri + 1
    /\ ocrCalls' = [ocrCalls EXCEPT ![Len(ocrCalls)][2] = ri + 1]
    /\ UNCHANGED <<frame, contours, fpc, ci, textVars, mainVars>>

\* end of the list readtext returned (possibly empty: "if result:"): next contour
EndResults ==
    /\ fpc = "results"
    /\ fpc' = "contours" /\ ci' = ci + 1 /\ results' = << >> /\ ri' = 0
    /\ UNCHANGED <<frame, contours, plates, annots, ocrCalls, textVars, mainVars>>

\* line 59: return frame, detected_plates
ReturnPlates ==
    /\ fpc = "contours" /\ ci > Len(contours)
    /\ fpc' = "done"
    /\ UNCHANGED <<frame, contours, ci, results, ri, plates, annots, ocrCalls, textVars, mainVars>>

Next == FindCandidates \/ CheckContour \/ HandleResult \/ EndResults \/ ReturnPlates

Spec == InitFrame /\ [][Next]_vars

Range(f) == {f[i] : i \in DOMAIN f}
IsPlateText(t) == \A i \in 1 .. Len(t) : IsAlnum(t[i]) \/ IsSpace(t[i])

(* C1: every contour whose crop reaches reader.readtext has area >= 1000, at *)
(* least 4 polygon vertices, aspect ratio w/h in [1.5, 5.0], width >= 80 and *)
(* height >= 20 (so never a square); plates and annotations come only from   *)
(* such contours.                                                            *)
C1_OnlyFilteredRegionsReachOCR ==
    /\ \A k \in 1 .. Len(ocrCalls) :
         LET c == contours[ocrCalls[k][1]] IN
         /\ c.area >= 1000
         /\ c.verts >= 4
         /\ 2 * c.w >= 3 * c.h /\ c.w <= 5 * c.h
         /\ c.w >= 80 /\ c.h >= 20
         /\ c.w # c.h
    /\ \A k \in 1 .. Len(plates) : plates[k].contour \in {ocrCalls[m][1] : m \in 1 .. Len(ocrCalls)}
    /\ \A k \in 1 .. Len(annots) :
         \E m \in 1 .. Len(ocrCalls) :
            LET c == contours[ocrCalls[m][1]] IN annots[k].rect = <<c.x, c.y, c.x + c.w, c.y + c.h>>

C1_Witness ==
    /\ fpc = "done" /\ ocrCalls # << >>
    /\ \E i \in 1 .. Len(contours) : contours[i].w = contours[i].h /\ contours[i].area >= 1000

(* C2: every Detected Plate has confidence >= 0.2, a text of length >= 4    *)
(* made only of alphanumeric and whitespace characters ("AB1" at 0.9 never). *)
C2_AcceptedPlatesPassFilter ==
    \A k \in 1 .. Len(plates) :
        /\ plates[k].prob >= 20
        /\ Len(plates[k].text) >= 4
        /\ IsPlateText(plates[k].text)
        /\ plates[k].text # <<"A","B","1">>

C2_Witness ==
    /\ fpc = "done"
    /\ \E k \in 1 .. Len(plates) : plates[k].text = <<"K","A","0","1">>

(* C3: when the only candidate region is read as "AB12CD3456" with          *)
(* confidence >= 0.2, process_frame returns exactly one plate, of "India".  *)
C3_IndiaRoundTrip ==
    (fpc = "done" /\ Len(ocrCalls) = 1 /\ ocrCalls[1][2] = 1
        /\ Len(plates) = 1 /\ plates[1].text = TextIndia /\ plates[1].prob >= 20)
        => plates[1].country = "India"

C3_Witness ==
    fpc = "done" /\ Len(ocrCalls) = 1 /\ ocrCalls[1][2] = 1
        /\ Len(plates) = 1 /\ plates[1].text = TextIndia /\ plates[1].prob = 20

Accepted(res) == res.prob >= 20 /\ Len(Normalize(res.text)) >= 4
Last(sq) == sq[Len(sq)]

C6_Order ==
    \A k, l \in 1 .. Len(plates) :
        k < l => \/ plates[k].contour < plates[l].contour
                 \/ plates[k].contour = plates[l].contour /\ plates[k].result < plates[l].result

C6_Step ==
    IF fpc = "results" /\ ri' = ri + 1
      THEN LET res == results'[1]
               t == Normalize(res.text)
               c == contours[ci]
           IN IF Accepted(res)
                THEN /\ Len(plates') = Len(plates) + 1 /\ SubSeq(plates', 1, Len(plates)) = plates
                     /\ Len(annots') = Len(annots) + 1 /\ SubSeq(annots', 1, Len(annots)) = annots
                     /\ Last(plates').text = t /\ Last(plates').prob = res.prob
                     /\ Last(plates').contour = ci /\ Last(plates').result = ri'
                     /\ Last(annots').label = <<t, Last(plates').country, res.prob>>
                     /\ Last(annots').rect = <<c.x, c.y, c.x + c.w, c.y + c.h>>
                ELSE UNCHANGED <<plates, annots>>
      ELSE UNCHANGED <<plates, annots>>

(* C6: the plates are in contour discovery order and, within a region, in   *)
(* OCR result order (not sorted by confidence); each accepted OCR result    *)
(* gives exactly one plate and one annotation (label and rectangle),        *)
(* rejected results give neither.                                           *)
C6_PlatesInDiscoveryOrder == []C6_Order /\ [][C6_Step]_vars

C6_Witness ==
    fpc = "done" /\ Len(plates) >= 2 /\ plates[1].prob < plates[2].prob
        /\ plates[1].contour = plates[2].contour

(* C7: an empty or uniform (all-black) frame gives no contour, no readtext  *)
(* call and no Detected Plate.                                              *)
C7_UniformFrameNoPlates ==
    Uniform(frame) => (contours = << >> /\ ocrCalls = << >> /\ plates = << >> /\ annots = << >>)

C7_Witness ==
    fpc = "done" /\ frame # << >> /\ Uniform(frame) /\ \A p \in Cells(frame) : frame[p[1]][p[2]] = 0

(***************************************************************************)
(* main and play_video                                                     *)
(*                                                                         *)
(* mpc is main's position: "menu", "first" (play_video(path, reader)),      *)
(* "fallback" (play_video(path, reader, use_matplotlib=True) in the         *)
(* except cv2.error block), "image", "handler" (an outer except block      *)
(* prints), "done" (main returns), "crashed" (an exception escapes       *)
(* main).  vpc is play_video's position.  gui: the OpenCV build has GUI     *)
(* support (otherwise imshow, waitKey and                                   *)
(* destroyAllWindows raise cv2.error).  A video file delivers streamLen     *)
(* frames from its start each time it is opened; the webcam delivers a      *)
(* fresh number of frames at each opening.  process_frame and the           *)
(* matplotlib display may raise; the user may press 'q' or Ctrl-C.          *)
(***************************************************************************)

MaxFrames == 2

InitMain ==
    /\ mpc = "menu" /\ vpc = "idle" /\ useMpl = FALSE /\ framePos = 0
    /\ streamLen \in 0 .. MaxFrames
    /\ gui \in BOOLEAN /\ webcam = FALSE
    /\ processed = 0 /\ released = FALSE /\ eosSeen = FALSE
    /\ innerCaught = FALSE /\ outerCaught = FALSE /\ retries = 0
    /\ FrameIdle /\ TextIdle

(* Where main goes when a cv2.error leaves play_video: the call in the try  *)
(* block of choice 1 or 2 is caught by "except cv2.error" and play_video is *)
(* called again with use_matplotlib=True; a cv2.error from that call is     *)
(* caught by the outer "except Exception", which ends main.                 *)
AfterCv2Error(pos) == IF pos = "first" THEN "fallback" ELSE "done"

(* The exception "kind" leaves play_video and is handled in main.           *)
Propagate(kind) ==
    IF kind = "cv2" /\ AfterCv2Error(mpc) = "fallback"
      THEN /\ mpc' = "fallback" /\ vpc' = "open" /\ useMpl' = TRUE
           /\ innerCaught' = TRUE /\ retries' = retries + 1
           /\ UNCHANGED outerCaught
      ELSE /\ mpc' = "handler" /\ vpc' = "idle" /\ outerCaught' = TRUE
           /\ UNCHANGED <<useMpl, innerCaught, retries>>

(* main lines 105-128: the menu.  input() and easyocr.Reader(['en']) run    *)
(* before the try block: an exception there (Ctrl-C at the prompt, a failed *)
(* model download) escapes main.                                            *)
ChooseMenu ==
    /\ mpc = "menu"
    /\ \E choice \in {"1", "2", "3", "other", "uncaught"} :
         IF choice \in {"1", "2"}
           THEN mpc' = "first" /\ vpc' = "open" /\ useMpl' = FALSE /\ webcam' = (choice = "2")
           ELSE /\ mpc' = CASE choice = "3" -> "image"
                            [] choice = "other" -> "done"
                            [] OTHER -> "crashed"
                /\ UNCHANGED <<vpc, useMpl, webcam>>
    /\ UNCHANGED <<framePos, streamLen, gui, processed, released, eosSeen, innerCaught,
                   outerCaught, retries, frameVars, textVars>>

(* lines 127-128 and process_image: input() of the path or cv2.imread fails *)
(* (EOFError, Ctrl-C: caught by main's outer handlers), imread returns None *)
(* (message, return), or the image goes through process_frame and the      *)
(* matplotlib display, either of which may raise.                          *)
ProcessImage ==
    /\ mpc = "image"
    /\ \E outcome \in {"inputFailed", "unreadable", "shown", "raised"} :
         /\ processed' = IF outcome \in {"inputFailed", "unreadable"} THEN processed
                                                                   ELSE processed + 1
         /\ outerCaught' = (outcome \in {"inputFailed", "raised"})
    /\ mpc' = IF outerCaught' THEN "handler" ELSE "done"
    /\ UNCHANGED <<vpc, useMpl, framePos, streamLen, gui, webcam, released, eosSeen,
                   innerCaught, retries, frameVars, textVars>>

\* play_video lines 80-84: cv2.VideoCapture and isOpened
OpenCapture ==
    /\ vpc = "open"
    /\ \E opened \in BOOLEAN :
         IF opened THEN vpc' = "read" ELSE vpc' = "returned"
    /\ IF webcam THEN streamLen' \in 0 .. MaxFrames ELSE UNCHANGED streamLen
    /\ framePos' = 0 /\ eosSeen' = FALSE /\ released' = FALSE
    /\ UNCHANGED <<mpc, useMpl, gui, webcam, processed, innerCaught, outerCaught, retries,
                   frameVars, textVars>>

\* line 88-89: what follows a failed cap.read() ("break")
OnReadFail == "release"

\* lines 86-89: cap.read(); end of stream ends the loop
ReadFrame ==
    /\ vpc = "read"
    /\ IF framePos < streamLen
         THEN vpc' = "process" /\ framePos' = framePos + 1 /\ UNCHANGED eosSeen
         ELSE vpc' = OnReadFail /\ eosSeen' = TRUE /\ UNCHANGED framePos
    /\ UNCHANGED <<mpc, useMpl, streamLen, gui, webcam, processed, released, innerCaught,
                   outerCaught, retries, frameVars, textVars>>

\* lines 90-93: process_frame and printing its plates; process_frame may raise
ProcessVideoFrame ==
    /\ vpc = "process"
    /\ processed' = processed + 1
    /\ \E outcome \in {"ok", "cv2", "other"} :
         IF outcome = "ok"
           THEN vpc' = "display" /\ UNCHANGED <<mpc, useMpl, innerCaught, outerCaught, retries>>
           ELSE Propagate(outcome)
    /\ UNCHANGED <<framePos, streamLen, gui, webcam, released, eosSeen, frameVars, textVars>>

(* lines 94-99: matplotlib display (may raise), or cv2.imshow and waitKey  *)
(* (cv2.error without GUI support); 'q' breaks the loop.                   *)
DisplayFrame ==
    /\ vpc = "display"
    /\ \E outcome \in (IF useMpl THEN {"next", "other"}
                       ELSE IF gui THEN {"next", "quit"} ELSE {"cv2"}) :
         IF outcome = "next"
           THEN vpc' = "read" /\ UNCHANGED <<mpc, useMpl, innerCaught, outerCaught, retries>>
           ELSE IF outcome = "quit"
             THEN vpc' = "release" /\ UNCHANGED <<mpc, useMpl, innerCaught, outerCaught, retries>>
             ELSE Propagate(outcome)
    /\ UNCHANGED <<framePos, streamLen, gui, webcam, processed, released, eosSeen, frameVars,
                   textVars>>

\* line 100: cap.release(); line 101: destroyAllWindows unless matplotlib
ReleaseCapture ==
    /\ vpc = "release"
    /\ released' = TRUE
    /\ vpc' = IF useMpl THEN "returned" ELSE "destroy"
    /\ UNCHANGED <<mpc, useMpl, framePos, streamLen, gui, webcam, processed, eosSeen,
                   innerCaught, outerCaught, retries, frameVars, textVars>>

\* line 102: cv2.destroyAllWindows() (cv2.error without GUI support)
DestroyWindows ==
    /\ vpc = "destroy"
    /\ IF gui
         THEN vpc' = "returned" /\ UNCHANGED <<mpc, useMpl, innerCaught, outerCaught, retries>>
         ELSE Propagate("cv2")
    /\ UNCHANGED <<framePos, streamLen, gui, webcam, processed, released, eosSeen, frameVars,
                   textVars>>

\* play_video returns normally: main's try block ends
ReturnFromPlay ==
    /\ vpc = "returned"
    /\ mpc' = "done" /\ vpc' = "idle"
    /\ UNCHANGED <<useMpl, framePos, streamLen, gui, webcam, processed, released, eosSeen,
                   innerCaught, outerCaught, retries, frameVars, textVars>>

\* lines 129-130: Ctrl-C while a video plays, caught by "except KeyboardInterrupt"
Interrupt ==
    /\ mpc \in {"first", "fallback"} /\ vpc # "idle"
    /\ mpc' = "handler" /\ vpc' = "idle" /\ outerCaught' = TRUE
    /\ UNCHANGED <<useMpl, framePos, streamLen, gui, webcam, processed, released, eosSeen,
                   innerCaught, retries, frameVars, textVars>>

(* lines 130 and 132: the print of the outer handler; a Ctrl-C during it is *)
(* caught by nothing and escapes main.                                      *)
HandlerExit ==
    /\ mpc = "handler"
    /\ \E interrupted \in BOOLEAN : mpc' = IF interrupted THEN "crashed" ELSE "done"
    /\ UNCHANGED <<vpc, useMpl, framePos, streamLen, gui, webcam, processed, released, eosSeen,
                   innerCaught, outerCaught, retries, frameVars, textVars>>

ProgramStep ==
    \/ ChooseMenu \/ ProcessImage \/ OpenCapture \/ ReadFrame \/ ProcessVideoFrame
    \/ DisplayFrame \/ ReleaseCapture \/ DestroyWindows \/ ReturnFromPlay \/ HandlerExit

NextMain == ProgramStep \/ Interrupt

SpecMain == InitMain /\ [][NextMain]_vars

\* The program runs its own steps; a Ctrl-C is never guaranteed to come.
FairSpecMain == SpecMain /\ WF_vars(ProgramStep)

(* C8: once main has caught a failure (including a cv2.error from          *)
(* play_video), no further frame is processed in that run.                  *)
C8_NoResumeAfterFailure ==
    [][(innerCaught \/ outerCaught) => processed' = processed]_vars

(* C9: when cap.read() fails the loop ends without error, no further frame  *)
(* reaches process_frame, the capture is released, and for a finite stream  *)
(* main eventually finishes.                                                *)
C9_EndOfStreamStops ==
    /\ [][eosSeen => (processed' = processed /\ innerCaught' = innerCaught)]_vars
    /\ [](eosSeen /\ mpc = "done" /\ ~outerCaught => released)
    /\ <>(mpc \in {"done", "crashed"})

====
